---------------------------- MODULE Spec2Model ----------------------------
(***************************************************************************)
(* Signaling server of a mediasoup relay (socket.io handlers).             *)
(*                                                                         *)
(* The repository holds two builds of the same server: src/server.ts and   *)
(* src/unnamed/part_000.  They differ in getProducers (answer the list /   *)
(* re-broadcast newStream and answer "reach") and in consume (register the *)
(* consumer / do not register it).  The variable `variant` fixes which     *)
(* build runs; every other handler is the same code in both files.         *)
(*                                                                         *)
(* A party is one socket (socket.id).  Every `await` on the relay engine   *)
(* suspends the handler: the request action puts a record in `pending`,    *)
(* and a Resolve action runs the rest of the handler with the engine's     *)
(* outcome (success or a thrown error).  producer.close(), consumer.close()*)
(* and transport.close() are synchronous calls that return no value; the   *)
(* model counts them per handle.                                           *)
(***************************************************************************)
EXTENDS Naturals, Sequences, FiniteSets

(* Two sockets, named by the order in which they connect.  No property     *)
(* below speaks of more than two parties; they hold with {1, 2, 3} too.    *)
Parties == {1, 2}

(* Relay-engine calls (create, connect, produce, consume) made in one run. *)
MaxCalls == 3

Ids == 1..MaxCalls

VARIABLES
    variant,      \* which build runs: "server" or "part_000"
    sockets,      \* party -> "new" | "connected" | "gone"
    transports,   \* Map socket.id -> transport (0: no entry)
    producers,    \* Map socket.id -> producer, as its entries in insertion order
    consumers,    \* Map socket.id -> consumer (0: no entry)
    handles,      \* id -> object the relay engine created under that id
    closes,       \* id -> number of close() calls made on that object
    connectedT,   \* ids of the transports whose connect() succeeded
    pending,      \* handlers suspended in a relay-engine call
    nextId,       \* id the next relay-engine call gets
    last          \* what the last handler step did (response, events, closes)

vars == <<variant, sockets, transports, producers, consumers, handles, closes,
          connectedT, pending, nextId, last>>

registries == <<transports, producers, consumers>>

---------------------------------------------------------------------------
(* JavaScript Map.  producers is iterated (entries(), values()), so it is   *)
(* kept as its entries in insertion order; set on an existing key keeps    *)
(* the key's position.  transports and consumers are only read and written *)
(* by key (has, get, set, delete): a function from the key to the value,   *)
(* 0 where the Map has no entry.                                           *)

MapKeys(m) == {m[i].key : i \in 1..Len(m)}

MapHas(m, k) == k \in MapKeys(m)

MapGet(m, k) == LET i == CHOOSE i \in 1..Len(m) : m[i].key = k IN m[i].val

MapSet(m, k, v) ==
    IF MapHas(m, k)
    THEN [i \in 1..Len(m) |-> IF m[i].key = k THEN [key |-> k, val |-> v] ELSE m[i]]
    ELSE Append(m, [key |-> k, val |-> v])

(* Map.clear() instead of Map.delete(key). *)
MapDelete_clear(m, k) == <<>>

MapDelete(m, k) == SelectSeq(m, LAMBDA e : e.key # k)

MapValues(m) == {m[i].val : i \in 1..Len(m)}

KeyHas(m, k) == m[k] # 0

KeyGet(m, k) == m[k]

KeySet(m, k, v) == [m EXCEPT ![k] = v]

KeyDelete(m, k) == [m EXCEPT ![k] = 0]

---------------------------------------------------------------------------
(* Responses, events and the record of a step.                             *)

Resp(kind, id) == [kind |-> kind, id |-> id, list |-> <<>>]

NoResp == Resp("none", 0)

ErrorResp == Resp("error", 0)

Connected == {p \in Parties : sockets[p] = "connected"}

(* socket.broadcast.emit instead of io.emit: every socket but the sender. *)
NewStream_exceptSender(producerId, userId) ==
    [ev |-> "newStream", producerId |-> producerId, userId |-> userId,
     to |-> Connected \ {userId}]

NewStream(producerId, userId) ==
    [ev |-> "newStream", producerId |-> producerId, userId |-> userId, to |-> Connected]

StreamStopped(userId) ==
    [ev |-> "streamStopped", producerId |-> 0, userId |-> userId, to |-> Connected]

Step(op, p, resp, emitted, closed, calls) ==
    [op |-> op, party |-> p, resp |-> resp, emitted |-> emitted,
     closed |-> closed, calls |-> calls]

Record(op, p, resp, emitted, closed, calls) ==
    last' = Step(op, p, resp, emitted, closed, calls)

CloseAll(closed) ==
    [h \in Ids |-> closes[h] + Cardinality({i \in 1..Len(closed) : closed[i] = h})]

Call(p, op, transport, producerId) ==
    [id |-> nextId, party |-> p, op |-> op, transport |-> transport,
     producerId |-> producerId]

NoHandle == [kind |-> "none", owner |-> 0]

---------------------------------------------------------------------------
Init ==
    /\ variant \in {"server", "part_000"}
    /\ sockets = [p \in Parties |-> "new"]
    /\ transports = [p \in Parties |-> 0]
    /\ producers = <<>>
    /\ consumers = [p \in Parties |-> 0]
    /\ handles = [h \in Ids |-> NoHandle]
    /\ closes = [h \in Ids |-> 0]
    /\ connectedT = {}
    /\ pending = {}
    /\ nextId = 1
    /\ last = Step("init", 0, NoResp, <<>>, <<>>, 0)

(* A new socket gets a fresh socket.id: party p is the p-th socket to connect. *)
Connection(p) ==
    /\ sockets[p] = "new"
    /\ \A q \in Parties : q < p => sockets[q] # "new"
    /\ sockets' = [sockets EXCEPT ![p] = "connected"]
    /\ Record("connection", p, NoResp, <<>>, <<>>, 0)
    /\ UNCHANGED <<variant, transports, producers, consumers, handles, closes,
                   connectedT, pending, nextId>>

ActiveProducers ==
    [i \in 1..Len(producers) |->
        [userId |-> producers[i].key, producerId |-> producers[i].val]]

GetProducers(p) ==
    /\ variant = "server"
    /\ sockets[p] = "connected"
    /\ Record("getProducers", p,
              [kind |-> "list", id |-> 0, list |-> ActiveProducers], <<>>, <<>>, 0)
    /\ UNCHANGED <<variant, sockets, transports, producers, consumers, handles,
                   closes, connectedT, pending, nextId>>

(* getProducers of part_000 without its forEach(io.emit). *)
GetProducers_part000_silent(p) ==
    /\ variant = "part_000"
    /\ sockets[p] = "connected"
    /\ Record("getProducers", p, Resp("reach", 0), <<>>, <<>>, 0)
    /\ UNCHANGED <<variant, sockets, transports, producers, consumers, handles,
                   closes, connectedT, pending, nextId>>

GetProducers_part000(p) ==
    /\ variant = "part_000"
    /\ sockets[p] = "connected"
    /\ Record("getProducers", p, Resp("reach", 0),
              [i \in 1..Len(producers) |->
                  NewStream(ActiveProducers[i].producerId, ActiveProducers[i].userId)],
              <<>>, 0)
    /\ UNCHANGED <<variant, sockets, transports, producers, consumers, handles,
                   closes, connectedT, pending, nextId>>

GetRouterRtpCapabilities(p) ==
    /\ sockets[p] = "connected"
    /\ Record("getRouterRtpCapabilities", p, Resp("rtpCapabilities", 0), <<>>, <<>>, 0)
    /\ UNCHANGED <<variant, sockets, transports, producers, consumers, handles,
                   closes, connectedT, pending, nextId>>

(* A lookup that is not scoped by socket.id: any registered transport. *)
TransportOf_anyParty(p) ==
    IF KeyHas(transports, p) THEN KeyGet(transports, p)
    ELSE IF \E q \in Parties : KeyHas(transports, q)
         THEN KeyGet(transports, CHOOSE q \in Parties : KeyHas(transports, q))
         ELSE 0

(* transports.get(socket.id); 0 stands for undefined. *)
TransportOf(p) == KeyGet(transports, p)

(* A lookup that finds a producer whatever id is asked for. *)
FindProducer_anyId(producerId) == TRUE

(* [...producers.values()].find((p) => p.id === producerId) *)
FindProducer(producerId) == producerId \in MapValues(producers)

---------------------------------------------------------------------------
(* createTransport: await router.createWebRtcTransport(...), then          *)
(* transports.set and the answer; a thrown error is answered as {error}.   *)

CreateTransport(p) ==
    /\ sockets[p] = "connected"
    /\ nextId <= MaxCalls
    /\ pending' = pending \cup {Call(p, "createTransport", 0, 0)}
    /\ nextId' = nextId + 1
    /\ Record("createTransport", p, NoResp, <<>>, <<>>, 1)
    /\ UNCHANGED <<variant, sockets, transports, producers, consumers, handles,
                   closes, connectedT>>

CreateTransportResolve(c, ok) ==
    /\ c \in pending
    /\ c.op = "createTransport"
    /\ pending' = pending \ {c}
    /\ IF ok
       THEN /\ handles' = [handles EXCEPT ![c.id] = [kind |-> "transport", owner |-> c.party]]
            /\ transports' = KeySet(transports, c.party, c.id)
            /\ Record("createTransportResolve", c.party, Resp("transport", c.id),
                      <<>>, <<>>, 0)
       ELSE /\ UNCHANGED <<handles, transports>>
            /\ Record("createTransportResolve", c.party, ErrorResp, <<>>, <<>>, 0)
    /\ UNCHANGED <<variant, sockets, producers, consumers, closes, connectedT, nextId>>

---------------------------------------------------------------------------
(* connectTransport: returns without answering when the party has no       *)
(* transport; otherwise await transport.connect(...).                      *)

ConnectTransport(p) ==
    /\ sockets[p] = "connected"
    /\ IF TransportOf(p) = 0
       THEN /\ Record("connectTransport", p, NoResp, <<>>, <<>>, 0)
            /\ UNCHANGED <<pending, nextId>>
       ELSE /\ nextId <= MaxCalls
            /\ pending' = pending \cup {Call(p, "connectTransport", TransportOf(p), 0)}
            /\ nextId' = nextId + 1
            /\ Record("connectTransport", p, NoResp, <<>>, <<>>, 0)
    /\ UNCHANGED <<variant, sockets, transports, producers, consumers, handles,
                   closes, connectedT>>

ConnectTransportResolve(c, ok) ==
    /\ c \in pending
    /\ c.op = "connectTransport"
    /\ pending' = pending \ {c}
    /\ IF ok
       THEN /\ connectedT' = connectedT \cup {c.transport}
            /\ Record("connectTransportResolve", c.party, Resp("ok", 0), <<>>, <<>>, 0)
       ELSE /\ UNCHANGED connectedT
            /\ Record("connectTransportResolve", c.party, ErrorResp, <<>>, <<>>, 0)
    /\ UNCHANGED <<variant, sockets, transports, producers, consumers, handles,
                   closes, nextId>>

---------------------------------------------------------------------------
(* produce: returns without answering when the party has no transport;     *)
(* otherwise await transport.produce(...), then producers.set, io.emit     *)
(* ("newStream") and the answer producer.id.                               *)

Produce(p) ==
    /\ sockets[p] = "connected"
    /\ IF TransportOf(p) = 0
       THEN /\ Record("produce", p, NoResp, <<>>, <<>>, 0)
            /\ UNCHANGED <<pending, nextId>>
       ELSE /\ nextId <= MaxCalls
            /\ pending' = pending \cup {Call(p, "produce", TransportOf(p), 0)}
            /\ nextId' = nextId + 1
            /\ Record("produce", p, NoResp, <<>>, <<>>, 1)
    /\ UNCHANGED <<variant, sockets, transports, producers, consumers, handles,
                   closes, connectedT>>

(* The announcement carrying the transport's id instead of producer.id. *)
ProduceEmitted_wrongId(c) == <<NewStream(c.transport, c.party)>>

(* io.emit("newStream", { producerId: producer.id, userId: socket.id }) *)
ProduceEmitted(c) == <<NewStream(c.id, c.party)>>

(* produce registering the entry before the relay engine has answered: a   *)
(* failure leaves the registration behind.                                 *)
ProduceResolve_registersFirst(c, ok) ==
    /\ c \in pending
    /\ c.op = "produce"
    /\ pending' = pending \ {c}
    /\ producers' = MapSet(producers, c.party, c.id)
    /\ IF ok
       THEN /\ handles' = [handles EXCEPT ![c.id] = [kind |-> "producer", owner |-> c.party]]
            /\ Record("produceResolve", c.party, Resp("producerId", c.id),
                      ProduceEmitted(c), <<>>, 0)
       ELSE /\ UNCHANGED handles
            /\ Record("produceResolve", c.party, ErrorResp, <<>>, <<>>, 0)
    /\ UNCHANGED <<variant, sockets, transports, consumers, closes, connectedT, nextId>>

ProduceResolve(c, ok) ==
    /\ c \in pending
    /\ c.op = "produce"
    /\ pending' = pending \ {c}
    /\ IF ok
       THEN /\ handles' = [handles EXCEPT ![c.id] = [kind |-> "producer", owner |-> c.party]]
            /\ producers' = MapSet(producers, c.party, c.id)
            /\ Record("produceResolve", c.party, Resp("producerId", c.id),
                      ProduceEmitted(c), <<>>, 0)
       ELSE /\ UNCHANGED <<handles, producers>>
            /\ Record("produceResolve", c.party, ErrorResp, <<>>, <<>>, 0)
    /\ UNCHANGED <<variant, sockets, transports, consumers, closes, connectedT, nextId>>

---------------------------------------------------------------------------
(* consume: answers {error} when the party has no transport or no producer *)
(* has the requested id; otherwise await transport.consume(...).           *)
(* server.ts registers the consumer, part_000 does not.                    *)

Consume(p, producerId) ==
    /\ sockets[p] = "connected"
    /\ IF TransportOf(p) = 0 \/ ~FindProducer(producerId)
       THEN /\ Record("consume", p, ErrorResp, <<>>, <<>>, 0)
            /\ UNCHANGED <<pending, nextId>>
       ELSE /\ nextId <= MaxCalls
            /\ pending' = pending \cup {Call(p, "consume", TransportOf(p), producerId)}
            /\ nextId' = nextId + 1
            /\ Record("consume", p, NoResp, <<>>, <<>>, 1)
    /\ UNCHANGED <<variant, sockets, transports, producers, consumers, handles,
                   closes, connectedT>>

ConsumeResolve(c, ok) ==
    /\ variant = "server"
    /\ c \in pending
    /\ c.op = "consume"
    /\ pending' = pending \ {c}
    /\ IF ok
       THEN /\ handles' = [handles EXCEPT ![c.id] = [kind |-> "consumer", owner |-> c.party]]
            /\ consumers' = KeySet(consumers, c.party, c.id)
            /\ Record("consumeResolve", c.party, Resp("consumer", c.id), <<>>, <<>>, 0)
       ELSE /\ UNCHANGED <<handles, consumers>>
            /\ Record("consumeResolve", c.party, ErrorResp, <<>>, <<>>, 0)
    /\ UNCHANGED <<variant, sockets, transports, producers, closes, connectedT, nextId>>

ConsumeResolve_part000(c, ok) ==
    /\ variant = "part_000"
    /\ c \in pending
    /\ c.op = "consume"
    /\ pending' = pending \ {c}
    /\ IF ok
       THEN /\ handles' = [handles EXCEPT ![c.id] = [kind |-> "consumer", owner |-> c.party]]
            /\ Record("consumeResolve", c.party, Resp("consumer", c.id), <<>>, <<>>, 0)
       ELSE /\ UNCHANGED handles
            /\ Record("consumeResolve", c.party, ErrorResp, <<>>, <<>>, 0)
    /\ UNCHANGED <<variant, sockets, transports, producers, consumers, closes,
                   connectedT, nextId>>

---------------------------------------------------------------------------
(* stopStream: closes and removes the party's producer and broadcasts      *)
(* streamStopped; nothing when the party has no producer.                  *)

(* stopStream without producers.delete: the entry outlives its close(). *)
StopStream_keepsEntry(p) ==
    /\ sockets[p] = "connected"
    /\ IF MapHas(producers, p)
       THEN /\ closes' = CloseAll(<<MapGet(producers, p)>>)
            /\ Record("stopStream", p, NoResp, <<StreamStopped(p)>>,
                      <<MapGet(producers, p)>>, 0)
       ELSE /\ UNCHANGED closes
            /\ Record("stopStream", p, NoResp, <<>>, <<>>, 0)
    /\ UNCHANGED <<variant, sockets, transports, producers, consumers, handles,
                   connectedT, pending, nextId>>

(* stopStream running the whole release sequence of disconnect. *)
StopStream_releasesAll(p) ==
    /\ sockets[p] = "connected"
    /\ closes' = CloseAll(
           (IF MapHas(producers, p) THEN <<MapGet(producers, p)>> ELSE <<>>)
           \o (IF KeyHas(consumers, p) THEN <<KeyGet(consumers, p)>> ELSE <<>>)
           \o (IF KeyHas(transports, p) THEN <<KeyGet(transports, p)>> ELSE <<>>))
    /\ producers' = MapDelete(producers, p)
    /\ consumers' = KeyDelete(consumers, p)
    /\ transports' = KeyDelete(transports, p)
    /\ Record("stopStream", p, NoResp,
              IF MapHas(producers, p) THEN <<StreamStopped(p)>> ELSE <<>>,
              (IF MapHas(producers, p) THEN <<MapGet(producers, p)>> ELSE <<>>)
              \o (IF KeyHas(consumers, p) THEN <<KeyGet(consumers, p)>> ELSE <<>>)
              \o (IF KeyHas(transports, p) THEN <<KeyGet(transports, p)>> ELSE <<>>), 0)
    /\ UNCHANGED <<variant, sockets, handles, connectedT, pending, nextId>>

StopStream(p) ==
    /\ sockets[p] = "connected"
    /\ IF MapHas(producers, p)
       THEN /\ closes' = CloseAll(<<MapGet(producers, p)>>)
            /\ producers' = MapDelete(producers, p)
            /\ Record("stopStream", p, NoResp, <<StreamStopped(p)>>,
                      <<MapGet(producers, p)>>, 0)
       ELSE /\ UNCHANGED <<closes, producers>>
            /\ Record("stopStream", p, NoResp, <<>>, <<>>, 0)
    /\ UNCHANGED <<variant, sockets, transports, consumers, handles, connectedT,
                   pending, nextId>>

---------------------------------------------------------------------------
(* disconnect: closes and removes the producer, then the consumer, then    *)
(* the transport of the party, each when registered.  No event is emitted. *)

(* The release sequence with the transport closed first. *)
DisconnectClosed_transportFirst(p) ==
    (IF KeyHas(transports, p) THEN <<KeyGet(transports, p)>> ELSE <<>>)
    \o (IF MapHas(producers, p) THEN <<MapGet(producers, p)>> ELSE <<>>)
    \o (IF KeyHas(consumers, p) THEN <<KeyGet(consumers, p)>> ELSE <<>>)

(* The close() calls of the disconnect handler, in the order it makes them. *)
DisconnectClosed(p) ==
    (IF MapHas(producers, p) THEN <<MapGet(producers, p)>> ELSE <<>>)
    \o (IF KeyHas(consumers, p) THEN <<KeyGet(consumers, p)>> ELSE <<>>)
    \o (IF KeyHas(transports, p) THEN <<KeyGet(transports, p)>> ELSE <<>>)

Disconnect(p) ==
    /\ sockets[p] = "connected"
    /\ sockets' = [sockets EXCEPT ![p] = "gone"]
    /\ closes' = CloseAll(DisconnectClosed(p))
    /\ producers' = MapDelete(producers, p)
    /\ consumers' = KeyDelete(consumers, p)
    /\ transports' = KeyDelete(transports, p)
    /\ Record("disconnect", p, NoResp, <<>>, DisconnectClosed(p), 0)
    /\ UNCHANGED <<variant, handles, connectedT, pending, nextId>>

---------------------------------------------------------------------------
Next ==
    \/ \E p \in Parties : Connection(p)
    \/ \E p \in Parties : GetProducers(p)
    \/ \E p \in Parties : GetProducers_part000(p)
    \/ \E p \in Parties : GetRouterRtpCapabilities(p)
    \/ \E p \in Parties : CreateTransport(p)
    \/ \E c \in pending, ok \in BOOLEAN : CreateTransportResolve(c, ok)
    \/ \E p \in Parties : ConnectTransport(p)
    \/ \E c \in pending, ok \in BOOLEAN : ConnectTransportResolve(c, ok)
    \/ \E p \in Parties : Produce(p)
    \/ \E c \in pending, ok \in BOOLEAN : ProduceResolve(c, ok)
    \/ \E p \in Parties, producerId \in Ids : Consume(p, producerId)
    \/ \E c \in pending, ok \in BOOLEAN : ConsumeResolve(c, ok)
    \/ \E c \in pending, ok \in BOOLEAN : ConsumeResolve_part000(c, ok)
    \/ \E p \in Parties : StopStream(p)
    \/ \E p \in Parties : Disconnect(p)

Spec == Init /\ [][Next]_vars

---------------------------------------------------------------------------
(* The relay engine's interface lets every call fail.  When a close()      *)
(* raises inside the disconnect handler, which has no try/catch, the       *)
(* handler ends there: the delete of that entry and the later steps do not *)
(* run.  k names the close() that raises: 1 producer, 2 consumer,          *)
(* 3 transport.  The raising call is not counted in `closes`.              *)

DisconnectThrows(p, k) ==
    LET hasP == MapHas(producers, p)
        hasC == KeyHas(consumers, p)
        hasT == KeyHas(transports, p)
        raising == IF k = 1 THEN MapGet(producers, p)
                   ELSE IF k = 2 THEN KeyGet(consumers, p)
                   ELSE KeyGet(transports, p)
        done == (IF k > 1 /\ hasP THEN <<MapGet(producers, p)>> ELSE <<>>)
                \o (IF k > 2 /\ hasC THEN <<KeyGet(consumers, p)>> ELSE <<>>)
    IN  /\ sockets[p] = "connected"
        /\ (k = 1 /\ hasP) \/ (k = 2 /\ hasC) \/ (k = 3 /\ hasT)
        /\ sockets' = [sockets EXCEPT ![p] = "gone"]
        /\ closes' = CloseAll(done)
        /\ producers' = IF k > 1 THEN MapDelete(producers, p) ELSE producers
        /\ consumers' = IF k > 2 THEN KeyDelete(consumers, p) ELSE consumers
        /\ UNCHANGED transports
        /\ Record("disconnect", p, Resp("throw", raising), <<>>, done, 0)
        /\ UNCHANGED <<variant, handles, connectedT, pending, nextId>>

NextCloseThrows ==
    \/ Next
    \/ \E p \in Parties, k \in 1..3 : DisconnectThrows(p, k)

SpecCloseThrows == Init /\ [][NextCloseThrows]_vars

---------------------------------------------------------------------------
(* Vocabulary of the properties.                                           *)

RequestOps == {"connectTransport", "produce", "consume", "stopStream"}

CreatingResolves == {"createTransportResolve", "produceResolve", "consumeResolve"}

NoEntryFor(p, t, pr, co) == ~KeyHas(t, p) /\ ~MapHas(pr, p) /\ ~KeyHas(co, p)

PendingOf(p) == {c \in pending : c.party = p}

CreatedFor(p) == {h \in Ids : handles[h].kind # "none" /\ handles[h].owner = p}

(* The handler that resumed in this step, as the call it was suspended in. *)
Resumed == pending \ pending'

---------------------------------------------------------------------------
(* C1: leak freedom.  Once a party has disconnected and none of its        *)
(* operations is pending any more, every transport, producer and consumer  *)
(* the relay engine created for it has been closed exactly once.           *)
C1_LeakFreedom ==
    \A p \in Parties :
        (sockets[p] = "gone" /\ PendingOf(p) = {})
            => \A h \in CreatedFor(p) : closes[h] = 1

(* C2: connectTransport, produce and consume of a party without a          *)
(* registered transport are each answered with an error payload.           *)
C2_NoTransportAnswered ==
    [][(last'.op \in {"connectTransport", "produce", "consume"}
        /\ ~KeyHas(transports, last'.party))
          => last'.resp.kind = "error"]_vars

(* C3: a connectTransport, produce, consume or stopStream of a party       *)
(* without a registered transport leaves no entry for the party in any     *)
(* registry, starts no relay-engine call and emits no event.               *)
C3_NoTransportNoEffect ==
    [][(last'.op \in RequestOps /\ ~KeyHas(transports, last'.party))
          => /\ NoEntryFor(last'.party, transports', producers', consumers')
             /\ last'.calls = 0
             /\ pending' = pending
             /\ nextId' = nextId
             /\ handles' = handles
             /\ last'.emitted = <<>>]_vars

(* A party that is connected and has no transport has just made one of     *)
(* the four requests, while the other party holds a transport.             *)
C3_Witness ==
    /\ last.op \in RequestOps
    /\ sockets[last.party] = "connected"
    /\ ~KeyHas(transports, last.party)
    /\ \E q \in Parties : KeyHas(transports, q)

(* C4: the disconnect handler closes the party's registered producer, then *)
(* its registered consumer, then its registered transport, skipping what   *)
(* is not registered, each closed once, and leaves the registries without  *)
(* any entry for the party.                                                *)
C4_DisconnectReleaseOrder ==
    [][last'.op = "disconnect"
          => LET p == last'.party
                 order == (IF MapHas(producers, p) THEN <<MapGet(producers, p)>> ELSE <<>>)
                          \o (IF KeyHas(consumers, p) THEN <<consumers[p]>> ELSE <<>>)
                          \o (IF KeyHas(transports, p) THEN <<transports[p]>> ELSE <<>>)
             IN  /\ last'.closed = order
                 /\ \A i, j \in 1..Len(order) : order[i] = order[j] => i = j
                 /\ \A h \in Ids :
                        closes'[h] = IF \E i \in 1..Len(order) : order[i] = h
                                     THEN 1 ELSE closes[h]
                 /\ NoEntryFor(p, transports', producers', consumers')]_vars

(* A party has just disconnected while its producer, consumer and          *)
(* transport were registered: the three were closed in that order.         *)
C4_Witness ==
    /\ last.op = "disconnect"
    /\ Len(last.closed) = 3
    /\ handles[last.closed[1]] = [kind |-> "producer", owner |-> last.party]
    /\ handles[last.closed[2]] = [kind |-> "consumer", owner |-> last.party]
    /\ handles[last.closed[3]] = [kind |-> "transport", owner |-> last.party]
    /\ NoEntryFor(last.party, transports, producers, consumers)

(* C5: the disconnect of a party with a registered producer broadcasts     *)
(* exactly one streamStopped{userId: party}; the disconnect of a party     *)
(* without one broadcasts none.                                            *)
C5_DisconnectBroadcastsStopped ==
    [][last'.op = "disconnect"
          => IF MapHas(producers, last'.party)
             THEN /\ Len(last'.emitted) = 1
                  /\ last'.emitted[1].ev = "streamStopped"
                  /\ last'.emitted[1].userId = last'.party
             ELSE last'.emitted = <<>>]_vars

(* C6: when a createTransport, produce or consume of a party resumes after *)
(* the party has disconnected, and no other operation of the party is      *)
(* still pending, the registries hold no entry for the party and the       *)
(* handle the operation obtained has been closed.                          *)
C6_ReleaseAfterSuspended ==
    [][(last'.op \in CreatingResolves
        /\ sockets[last'.party] = "gone"
        /\ {c \in pending' : c.party = last'.party} = {})
          => /\ NoEntryFor(last'.party, transports', producers', consumers')
             /\ \A c \in Resumed :
                    handles'[c.id].kind # "none" => closes'[c.id] = 1]_vars

(* C7: a producer is registered, and newStream emitted, only when the      *)
(* transport it was produced on has been connected.                        *)
C7_PublishOnlyWhenConnected ==
    [][last'.op = "produceResolve"
          => \A c \in Resumed :
                 c.transport \notin connectedT
                     => producers' = producers /\ last'.emitted = <<>>]_vars

(* C8: when transport.produce succeeds for a party, the producers registry *)
(* holds exactly one entry for the party, the new producer; the caller is  *)
(* answered with its id; and exactly one newStream{producerId, userId} is  *)
(* broadcast.                                                              *)
C8_ProduceRegistersAndAnnounces ==
    [][last'.op = "produceResolve"
          => \A c \in Resumed :
                 handles'[c.id].kind = "producer"
                     => /\ Cardinality({i \in 1..Len(producers') :
                                           producers'[i].key = c.party}) = 1
                        /\ MapGet(producers', c.party) = c.id
                        /\ last'.resp = Resp("producerId", c.id)
                        /\ Len(last'.emitted) = 1
                        /\ last'.emitted[1].ev = "newStream"
                        /\ last'.emitted[1].producerId = c.id
                        /\ last'.emitted[1].userId = c.party]_vars

(* A produce has just succeeded on a transport that is registered for the  *)
(* party and was connected before.                                         *)
C8_Witness ==
    /\ last.op = "produceResolve"
    /\ last.resp.kind = "producerId"
    /\ KeyHas(transports, last.party)
    /\ transports[last.party] \in connectedT
    /\ MapHas(producers, last.party)
    /\ MapGet(producers, last.party) = last.resp.id

(* C9: stopStream of a party with a registered producer closes that        *)
(* producer once, removes it from the registry and broadcasts exactly one  *)
(* streamStopped{userId: party}; stopStream of a party without one (as     *)
(* after a first stopStream) changes no registry, closes nothing, emits    *)
(* nothing and answers nothing.                                            *)
C9_StopStreamOnceThenNoop ==
    [][last'.op = "stopStream"
          => LET p == last'.party IN
             IF MapHas(producers, p)
             THEN /\ ~MapHas(producers', p)
                  /\ last'.closed = <<MapGet(producers, p)>>
                  /\ closes' = [closes EXCEPT ![MapGet(producers, p)] = 1]
                  /\ Len(last'.emitted) = 1
                  /\ last'.emitted[1].ev = "streamStopped"
                  /\ last'.emitted[1].userId = p
             ELSE /\ registries' = registries
                  /\ closes' = closes
                  /\ last'.closed = <<>>
                  /\ last'.emitted = <<>>
                  /\ last'.resp = NoResp
                  /\ last'.calls = 0]_vars

(* A stopStream has just found nothing to do for a connected party whose   *)
(* producer an earlier stopStream closed.                                  *)
C9_Witness ==
    /\ last.op = "stopStream"
    /\ last.closed = <<>>
    /\ sockets[last.party] = "connected"
    /\ ~MapHas(producers, last.party)
    /\ \E h \in CreatedFor(last.party) :
           handles[h].kind = "producer" /\ closes[h] = 1

C11_ConsumeUnknownProducer ==
    [][\A p \in Parties, producerId \in Ids :
          (/\ Consume(p, producerId)
           /\ KeyHas(transports, p)
           /\ producerId \notin MapValues(producers))
            => /\ last'.resp.kind = "error"
               /\ last'.calls = 0
               /\ pending' = pending
               /\ nextId' = nextId
               /\ handles' = handles
               /\ consumers' = consumers]_vars

(* A connected party that has a transport and an earlier consumer has just *)
(* been refused a consume: no producer has the id it asked for.            *)
C11_Witness ==
    /\ last.op = "consume"
    /\ last.resp.kind = "error"
    /\ sockets[last.party] = "connected"
    /\ KeyHas(transports, last.party)
    /\ KeyHas(consumers, last.party)
    /\ producers = <<>>

(* C12: when the relay engine fails the call a createTransport,            *)
(* connectTransport, produce or consume is suspended in, the caller is     *)
(* answered with an error, nothing is broadcast and the three registries   *)
(* are as they were.                                                       *)
C12_EngineFailureNoPartialState ==
    [][\A c \in pending :
          (\/ CreateTransportResolve(c, FALSE)
           \/ ConnectTransportResolve(c, FALSE)
           \/ ProduceResolve(c, FALSE)
           \/ ConsumeResolve(c, FALSE)
           \/ ConsumeResolve_part000(c, FALSE))
            => /\ last'.resp.kind = "error"
               /\ last'.emitted = <<>>
               /\ registries' = registries]_vars

(* The relay engine has just failed a produce of a party that already had  *)
(* a transport and a producer registered: both entries are still there.    *)
C12_Witness ==
    /\ last.op = "produceResolve"
    /\ last.resp.kind = "error"
    /\ KeyHas(transports, last.party)
    /\ MapHas(producers, last.party)

(* C13: when a close() raises during the disconnect of a party, the        *)
(* remaining release steps are still made (every other registered handle   *)
(* of the party is closed) and the registries hold no entry for the party  *)
(* afterwards.                                                             *)
C13_CleanupFailureIsolation ==
    [][(last'.op = "disconnect" /\ last'.resp.kind = "throw")
          => LET p == last'.party IN
             /\ NoEntryFor(p, transports', producers', consumers')
             /\ MapHas(producers, p) /\ MapGet(producers, p) # last'.resp.id
                    => closes'[MapGet(producers, p)] = 1
             /\ KeyHas(consumers, p) /\ consumers[p] # last'.resp.id
                    => closes'[consumers[p]] = 1
             /\ KeyHas(transports, p) /\ transports[p] # last'.resp.id
                    => closes'[transports[p]] = 1]_vars

(* C14: getProducers answers the caller with a list that holds            *)
(* {userId, producerId} for every registered producer exactly once and     *)
(* nothing else.                                                           *)
C14_GetProducersListsAll ==
    [][last'.op = "getProducers"
          => /\ last'.resp.kind = "list"
             /\ Len(last'.resp.list) = Len(producers)
             /\ \A q \in MapKeys(producers) :
                    \E i \in 1..Len(last'.resp.list) :
                        last'.resp.list[i]
                            = [userId |-> q, producerId |-> MapGet(producers, q)]]_vars

(* C15: every newStream and streamStopped is sent to exactly the sockets   *)
(* connected when it is emitted, the socket that caused it included.       *)
C15_BroadcastReachesAll ==
    [][\A i \in 1..Len(last'.emitted) :
          /\ last'.emitted[i].ev \in {"newStream", "streamStopped"}
          /\ last'.emitted[i].to = {q \in Parties : sockets[q] = "connected"}
          /\ sockets' = sockets
          /\ sockets[last'.party] = "connected" => last'.party \in last'.emitted[i].to]_vars

(* Both sockets are connected and the last step broadcast an event caused  *)
(* by one of them: it went to both.                                        *)
C15_Witness ==
    /\ last.emitted # <<>>
    /\ \A q \in Parties : sockets[q] = "connected"
    /\ last.emitted[1].userId = last.party
    /\ last.emitted[1].to = Parties

(* C16: a step of one party (a request, the resumption of one of its       *)
(* suspended operations, its disconnect) leaves the transports, producers  *)
(* and consumers entries of every other party as they were.                *)
C16_CrossPartyIsolation ==
    [][\A b \in Parties :
          b # last'.party
            => /\ transports'[b] = transports[b]
               /\ consumers'[b] = consumers[b]
               /\ MapHas(producers', b) = MapHas(producers, b)
               /\ MapHas(producers, b)
                      => MapGet(producers', b) = MapGet(producers, b)]_vars

(* A party has just disconnected, releasing entries of its own, while the  *)
(* other party's transport and producer are registered.                    *)
C16_Witness ==
    /\ last.op = "disconnect"
    /\ last.closed # <<>>
    /\ \E b \in Parties :
           b # last.party /\ KeyHas(transports, b) /\ MapHas(producers, b)

(* C17: when transport.consume succeeds for a party, the consumer is       *)
(* registered in consumers under the party.                                *)
C17_ConsumeRegisters ==
    [][last'.op = "consumeResolve"
          => \A c \in Resumed :
                 handles'[c.id].kind = "consumer"
                     => /\ KeyHas(consumers', c.party)
                        /\ consumers'[c.party] = c.id]_vars

(* C18 as stated: getProducers broadcasts one newStream for each           *)
(* registered producer and leaves the registries as they were.             *)
C18_GetProducersRebroadcasts ==
    [][last'.op = "getProducers"
          => /\ registries' = registries
             /\ Len(last'.emitted) = Len(producers)
             /\ \A i \in 1..Len(producers) :
                    /\ last'.emitted[i].ev = "newStream"
                    /\ last'.emitted[i].userId = producers[i].key
                    /\ last'.emitted[i].producerId = producers[i].val]_vars

(* C18 as amended: getProducers leaves the registries as they were; the    *)
(* part_000 build broadcasts one newStream for each registered producer    *)
(* (none when there is none), the server.ts build broadcasts nothing.      *)
C18_GetProducersRebroadcastsInOneBuild ==
    [][last'.op = "getProducers"
          => /\ registries' = registries
             /\ IF variant = "part_000"
                THEN /\ Len(last'.emitted) = Len(producers)
                     /\ \A i \in 1..Len(producers) :
                            /\ last'.emitted[i].ev = "newStream"
                            /\ last'.emitted[i].userId = producers[i].key
                            /\ last'.emitted[i].producerId = producers[i].val
                            /\ last'.emitted[i].to
                                   = {q \in Parties : sockets[q] = "connected"}
                ELSE last'.emitted = <<>>]_vars

(* The part_000 build has just answered a getProducers of one party while  *)
(* the other party's producer is registered: a newStream was broadcast.    *)
C18_Witness ==
    /\ variant = "part_000"
    /\ last.op = "getProducers"
    /\ \E b \in Parties : b # last.party /\ MapHas(producers, b)
    /\ Len(last.emitted) = Len(producers)
    /\ last.emitted[1].ev = "newStream"

(* C19: whenever a resumed consume registers a consumer, the producer it   *)
(* targets is registered in producers at that moment.                      *)
C19_ConsumeTargetStillRegistered ==
    [][last'.op = "consumeResolve"
          => \A c \in Resumed :
                 (KeyHas(consumers', c.party) /\ consumers'[c.party] = c.id)
                     => c.producerId \in MapValues(producers')]_vars

(* C20: every party that has an entry in producers or in consumers has an  *)
(* entry in transports.                                                    *)
C20_EntriesImplyTransport ==
    \A p \in Parties :
        (MapHas(producers, p) \/ KeyHas(consumers, p)) => KeyHas(transports, p)

=============================================================================
